---- MODULE Spec2Model ----
(***************************************************************************)
(* Review harvesting pipeline of src/main.py (scrape_site and the helpers  *)
(* it calls: scroll_and_load, grab_reviews, handle_pagination).            *)
(*                                                                         *)
(* The browser, the site and the language model are the environment: each  *)
(* call into them is an action whose outcome is chosen with \E among the    *)
(* outcomes the call can have (a value, or an exception).                  *)
(*                                                                         *)
(* A review is a record with the fields text and stars.  A text is an      *)
(* integer that identifies one body string: text 0 stands for every string *)
(* both extracting scripts reject (empty, boilerplate, under 10            *)
(* characters), a negative text for a string of 10 characters or more with *)
(* fewer than 3 words, a positive text for a string of 3 words or more.    *)
(* stars is <<>> for null, else <<v>> with the rating v in tenths.         *)
(***************************************************************************)
EXTENDS Integers, Sequences, FiniteSets, TLC

VARIABLES
    site,             \* the site being scraped (environment, fixed for a run)
    url,              \* page.url, a sequence of URL tokens
    site_page,        \* page of a paged site the browser currently shows
    max_count,        \* argument of scrape_site
    pc,               \* position of scrape_site
    browser,          \* "none" | "open" | "closed"
    context,          \* "none" | "open" | "closed"
    exc,              \* "none", or the step whose exception is propagating
    review_list,      \* scrape_site: review_list
    successful_pages, \* scrape_site: successful_pages
    curr_page,        \* scrape_site: curr_page (0 before it is bound)
    initial_count,    \* scrape_site: initial_count
    new_batch,        \* scrape_site: new_batch
    has_next,         \* scrape_site: has_next
    result,           \* value returned by scrape_site (NoResult until then)
    cleaned,          \* grab_reviews: cleaned
    selectors,        \* grab_reviews: TRUE iff the reply gave container and content selectors
    ai_reviews,       \* grab_reviews: ai_reviews
    scroll_i,         \* scroll_and_load: iterations of the scroll loop done
    current_height,   \* scroll_and_load: current_height
    scrollHeight,     \* document.body.scrollHeight of the page, while the scroll loop reads it
    load_i,           \* scroll_and_load: index into load_more_selectors
    load_clicks,      \* scroll_and_load: clicks on the current selector, modulo 2
    sel_i,            \* handle_pagination: index into selectors
    next_url,         \* handle_pagination: next_url (<<>> while unbound)
    response,         \* handle_pagination: outcome of page.goto(next_url)
    pages_grabbed,    \* number of calls of grab_reviews in this run
    contributed,      \* history: the page visited last had a review appended to review_list
    http,             \* get_reviews: the response of the endpoint (status 0 until it answers)
    norm,             \* cleanText applied to one text, and to its own output
    disc,             \* app.py, get_dynamic_selectors: the reply and what is returned
    runs,             \* two calls of scrape_site in flight at once: the locals of each
    guided            \* grab_reviews: the script run with the discovered selectors, on one page

vars == <<site, url, site_page, max_count, pc, browser, context, exc,
          review_list, successful_pages, curr_page, initial_count, new_batch,
          has_next, result, cleaned, selectors, ai_reviews, scroll_i,
          current_height, scrollHeight, load_i, load_clicks, sel_i, next_url,
          response,
          pages_grabbed, contributed, http, norm, disc, runs, guided>>

\* the variables of scrape_site and get_reviews
main == <<site, url, site_page, max_count, pc, browser, context, exc,
          review_list, successful_pages, curr_page, initial_count, new_batch,
          has_next, result, cleaned, selectors, ai_reviews, scroll_i,
          current_height, scrollHeight, load_i, load_clicks, sel_i, next_url,
          response,
          pages_grabbed, contributed, http>>

\* the variables no step of scrape_site or get_reviews touches
aux == <<norm, disc, runs, guided>>

(***************************************************************************)
(* Bounds of the model                                                     *)
(***************************************************************************)
NumBodies == 3
MaxBoxes == 2
MaxHeight == 2
MaxWords == 7
MaxLines == 2

(***************************************************************************)
(* Constants of the program                                                *)
(***************************************************************************)
MaxPages == 50
DefaultMaxCount == 500
ScrollTries == 3
NumLoadMoreSelectors == 6
NumPaginationSelectors == 14

(***************************************************************************)
(* Sequences                                                               *)
(***************************************************************************)
BoundedSeq(S, n) == UNION {[1..k -> S] : k \in 0..n}

Texts(reviews) == {reviews[i].text : i \in DOMAIN reviews}

\* stars: null
NoStars == <<>>

\* a review without a rating
Review(t) == [text |-> t, stars |-> NoStars]

\* len(text.split()), as far as the tests against 3 need it
Tokens(t) == IF t = 0 THEN 0 ELSE IF t < 0 THEN 1 ELSE 3

(***************************************************************************)
(* Sites                                                                   *)
(***************************************************************************)
\* kind "free": every page can show any boxes with texts in 0..NumBodies;
\* kind "paged": page p shows the per texts (p-1)*per+1 .. p*per.
\* nav "free": every attempt to reach the next page can succeed or fail;
\* nav "strict": it succeeds exactly while the site has a further page.
FreeSite == [kind |-> "free", nav |-> "free", pages |-> 0, per |-> 0]

UrlSite == [kind |-> "paged", nav |-> "free", pages |-> 3, per |-> 1]

ScenarioSite == [kind |-> "paged", nav |-> "strict", pages |-> 3, per |-> 5]

LongSite == [kind |-> "paged", nav |-> "strict", pages |-> MaxPages + 2, per |-> 1]

\* one page whose boxes carry rating markup, see StarCandidates and
\* RatingMatch
RatedSite == [kind |-> "rated", nav |-> "strict", pages |-> 1, per |-> 3]

Sites == {FreeSite, UrlSite, ScenarioSite, LongSite, RatedSite}

PageBodies(s, p) ==
    IF p \in 1..s.pages THEN [i \in 1..s.per |-> (p - 1) * s.per + i] ELSE <<>>

\* texts of the boxes the heuristic script can find on the current page
HeuristicBoxes(s, p) ==
    IF s.kind = "free" THEN BoundedSeq(0..NumBodies, MaxBoxes)
    ELSE IF s.kind = "rated" THEN {<<1, 2, -1>>}
    ELSE {PageBodies(s, p)}

\* texts the discovered selectors can match on the current page
AiBoxes(s, p) ==
    IF s.kind = "free" THEN BoundedSeq(0..NumBodies, MaxBoxes)
    ELSE IF s.kind = "rated" THEN {<<>>, <<2, 3, -1>>}
    ELSE {<<>>, PageBodies(s, p)}

\* what getStars finds in the box with text t, in the order it looks: the
\* number of filled-star elements, the data attributes, the text patterns
\* (values in tenths).  Box 1 of RatedSite has data-rating="4.5"; box 2 has
\* 7 filled-star elements and data-rating="4".
StarCandidates(s, t) ==
    IF s.kind = "rated" /\ t = 1 THEN <<45>>
    ELSE IF s.kind = "rated" /\ t = 2 THEN <<70, 40>>
    ELSE <<>>

\* the match of /([1-5]([.,]\d)?)/ in the text of the rating element of
\* the box with text t: <<>> when there is no element or no match.  On
\* RatedSite the rating texts are "3", "5.9" and "4,5".
RatingMatch(s, t) ==
    IF s.kind = "rated" /\ t = 2 THEN <<[int |-> 3, sep |-> "", dec |-> 0]>>
    ELSE IF s.kind = "rated" /\ t = 3 THEN <<[int |-> 5, sep |-> ".", dec |-> 9]>>
    ELSE IF s.kind = "rated" /\ t < 0 THEN <<[int |-> 4, sep |-> ",", dec |-> 5]>>
    ELSE <<>>

\* values of the argument max_count
MaxCounts(s) ==
    IF s = FreeSite THEN {2, NumBodies + 1}
    ELSE IF s = UrlSite THEN {2, 100}
    ELSE IF s = ScenarioSite THEN {8, 100}
    ELSE IF s = RatedSite THEN {100}
    ELSE {DefaultMaxCount}

(***************************************************************************)
(* URLs: a sequence of tokens.  "page=N" is page=<digits> with value n,    *)
(* "page=" is the text page= not followed by a digit.                      *)
(***************************************************************************)
Tok(k) == [k |-> k, n |-> 0]

PageTok(n) == [k |-> "page=N", n |-> n]

\* values of the argument url
InitUrls(s) ==
    IF s = UrlSite
    THEN {<<Tok("host")>>,
          <<Tok("host"), Tok("?"), Tok("other")>>,
          <<Tok("host"), Tok("?"), PageTok(2), Tok("&"), Tok("other")>>,
          <<Tok("host"), Tok("?"), Tok("page=")>>}
    ELSE IF s = FreeSite
    THEN {<<Tok("host"), Tok("?"), PageTok(1)>>}
    ELSE {<<Tok("host")>>}

\* value of result while scrape_site has not returned
NoResult == [reviews_count |-> -1, reviews |-> <<>>]

\* values of the argument download of get_reviews
Downloads(s) == IF s = RatedSite THEN BOOLEAN ELSE {FALSE}

\* value of http while get_reviews has not answered
NoResponse(d) == [download |-> d, status |-> 0, body |-> "none", detail |-> "none"]

TypeOK ==
    /\ site \in Sites
    /\ browser \in {"none", "open", "closed"}
    /\ context \in {"none", "open", "closed"}
    /\ exc \in {"none", "launch", "new_context", "new_page", "goto", "heuristic",
                "llm", "ai_evaluate", "finally", "close_browser"}
    /\ response \in {"unbound", "ok", "not_ok", "none", "raise"}
    /\ load_clicks \in {0, 1}
    /\ has_next \in BOOLEAN
    /\ selectors \in BOOLEAN
    /\ successful_pages \in Nat
    /\ curr_page \in Nat
    /\ initial_count \in Nat
    /\ pages_grabbed \in Nat
    /\ http.status \in {0, 200, 500}
    /\ scrollHeight \in 0..MaxHeight
    /\ contributed \in BOOLEAN

\* norm while cleanText is not under study
NormIdle == [pc |-> "idle", text |-> <<>>, once |-> <<>>, twice |-> <<>>]

\* a reply of the model: the call raised ("error"), or the reply has no
\* text to split ("no_content"), or it is text, a sequence of lines
NoReply == [kind |-> "error", lines |-> <<>>]

\* what get_dynamic_selectors hands to its caller
Selectors(containers, content, ratings) ==
    [raised |-> FALSE, containers |-> containers, content |-> content,
     ratings |-> ratings]

\* disc while get_dynamic_selectors is not under study
DiscIdle == [pc |-> "idle", reply |-> NoReply, out |-> Selectors(<<>>, <<>>, <<>>)]

\* the calls of scrape_site that are in flight together
Runs == {1, 2}

\* the locals of a call of scrape_site that has not begun; responses is the
\* sequence of what the call's own page has answered so far
NoRun == [pc |-> "idle", max_count |-> 0, review_list |-> <<>>,
          successful_pages |-> 0, curr_page |-> 0, responses |-> <<>>]

\* guided while the script run with the discovered selectors is not under
\* study
GuidedIdle == [pc |-> "idle", boxes |-> <<>>, found |-> <<>>]

\* the start of a run of scrape_site on one of the sites S
MainInit(S) ==
    /\ site \in S
    /\ url \in InitUrls(site)
    /\ site_page = IF site.kind = "free" THEN 0 ELSE 1
    /\ max_count \in MaxCounts(site)
    /\ pc = "launch"
    /\ browser = "none"
    /\ context = "none"
    /\ exc = "none"
    /\ review_list = <<>>
    /\ successful_pages = 0
    /\ curr_page = 0
    /\ initial_count = 0
    /\ new_batch = <<>>
    /\ has_next = FALSE
    /\ result = NoResult
    /\ cleaned = <<>>
    /\ selectors = FALSE
    /\ ai_reviews = <<>>
    /\ scroll_i = 0
    /\ current_height = 0
    /\ scrollHeight = 0
    /\ load_i = 1
    /\ load_clicks = 0
    /\ sel_i = 1
    /\ next_url = <<>>
    /\ response = "unbound"
    /\ pages_grabbed = 0
    /\ contributed = FALSE
    /\ http \in {NoResponse(d) : d \in Downloads(site)}

Init ==
    /\ MainInit(Sites)
    /\ norm = NormIdle
    /\ disc = DiscIdle
    /\ runs = [r \in Runs |-> NoRun]
    /\ guided = GuidedIdle

(***************************************************************************)
(* scrape_site: acquiring the session (lines 561-567, before the try)      *)
(***************************************************************************)
\* p.chromium.launch: the browser exists afterwards, or the call raises
Launch ==
    /\ pc = "launch"
    /\ \/ /\ browser' = "open"
          /\ pc' = "new_context"
          /\ exc' = exc
       \/ /\ browser' = browser
          /\ pc' = "done"
          /\ exc' = pc
    /\ UNCHANGED <<aux, contributed, scrollHeight,
                   http, site, url, site_page, max_count, context, review_list,
                   successful_pages, curr_page, initial_count, new_batch,
                   has_next, result, cleaned, selectors, ai_reviews, scroll_i,
                   current_height, load_i, sel_i, pages_grabbed,
                   load_clicks, next_url, response>>

\* browser.new_context: not inside the try, an exception leaves scrape_site
NewContext ==
    /\ pc = "new_context"
    /\ \/ /\ context' = "open"
          /\ pc' = "new_page"
          /\ exc' = exc
       \/ /\ context' = context
          /\ pc' = "done"
          /\ exc' = pc
    /\ UNCHANGED <<aux, contributed, scrollHeight,
                   http, site, url, site_page, max_count, browser, review_list,
                   successful_pages, curr_page, initial_count, new_batch,
                   has_next, result, cleaned, selectors, ai_reviews, scroll_i,
                   current_height, load_i, sel_i, pages_grabbed,
                   load_clicks, next_url, response>>

\* context.new_page: not inside the try either
NewPage ==
    /\ pc = "new_page"
    /\ \/ /\ pc' = "goto"
          /\ exc' = exc
       \/ /\ pc' = "done"
          /\ exc' = pc
    /\ UNCHANGED <<aux, contributed, scrollHeight,
                   http, site, url, site_page, max_count, browser, context,
                   review_list, successful_pages, curr_page, initial_count,
                   new_batch, has_next, result, cleaned, selectors, ai_reviews,
                   scroll_i, current_height, load_i, sel_i, pages_grabbed,
                   load_clicks, next_url, response>>

(***************************************************************************)
(* scrape_site: the try block                                              *)
(***************************************************************************)
\* page.goto(url), the settle wait, curr_page = 1; a failure goes to finally
Goto ==
    /\ pc = "goto"
    /\ \/ /\ curr_page' = 1
          /\ pc' = "while"
          /\ exc' = exc
       \/ /\ curr_page' = curr_page
          /\ pc' = "finally"
          /\ exc' = pc
    /\ UNCHANGED <<aux, contributed, scrollHeight,
                   http, site, url, site_page, max_count, browser, context,
                   review_list, successful_pages, initial_count, new_batch,
                   has_next, result, cleaned, selectors, ai_reviews, scroll_i,
                   current_height, load_i, sel_i, pages_grabbed,
                   load_clicks, next_url, response>>

\* LoopTest without "curr_page <= 50"
LoopTestNoPageCap ==
    /\ pc = "while"
    /\ IF Len(review_list) < max_count
       THEN /\ pc' = "scroll"
            /\ scrollHeight' \in 0..MaxHeight
            /\ contributed' = FALSE
       ELSE /\ pc' = "result"
            /\ scrollHeight' = 0
            /\ contributed' = contributed
    /\ scroll_i' = 0
    /\ current_height' = 0
    /\ UNCHANGED <<aux, http, site, url, site_page, max_count, browser, context, exc,
                   review_list, successful_pages, curr_page, initial_count,
                   new_batch, has_next, result, cleaned, selectors, ai_reviews,
                   load_i, sel_i, pages_grabbed,
                   load_clicks, next_url, response>>

\* while len(review_list) < max_count and curr_page <= 50
LoopTest ==
    /\ pc = "while"
    /\ IF Len(review_list) < max_count /\ curr_page <= MaxPages
       THEN /\ pc' = "scroll"
            /\ scrollHeight' \in 0..MaxHeight
            /\ contributed' = FALSE
       ELSE /\ pc' = "result"
            /\ scrollHeight' = 0
            /\ contributed' = contributed
    /\ scroll_i' = 0
    /\ current_height' = 0
    /\ UNCHANGED <<aux, http, site, url, site_page, max_count, browser, context, exc,
                   review_list, successful_pages, curr_page, initial_count,
                   new_batch, has_next, result, cleaned, selectors, ai_reviews,
                   load_i, sel_i, pages_grabbed,
                   load_clicks, next_url, response>>

(***************************************************************************)
(* scroll_and_load                                                         *)
(***************************************************************************)
\* one iteration of "for _ in range(3)": scroll, wait, read the new height.
\* scrollHeight is the height of the page before the scroll; new_height is
\* its height after it, which the scroll may have changed (content loaded
\* or removed by the page's scripts).  current_height starts at 0, whatever
\* the height of the page is.
ScrollIteration ==
    /\ pc = "scroll"
    /\ scroll_i < ScrollTries
    /\ \/ \E new_height \in 0..MaxHeight :
             /\ scrollHeight' = new_height
             /\ IF new_height = current_height
                THEN /\ pc' = "settle"
                     /\ UNCHANGED <<scroll_i, current_height>>
                ELSE /\ current_height' = new_height
                     /\ scroll_i' = scroll_i + 1
                     /\ pc' = IF scroll_i + 1 = ScrollTries THEN "settle" ELSE "scroll"
       \/ \* scroll_error: logged, the loop is left
          /\ pc' = "settle"
          /\ UNCHANGED <<scroll_i, current_height, scrollHeight>>
    /\ UNCHANGED <<aux, contributed, http, site, url, site_page, max_count, browser, context, exc,
                   review_list, successful_pages, curr_page, initial_count,
                   new_batch, has_next, result, cleaned, selectors, ai_reviews,
                   load_i, sel_i, pages_grabbed,
                   load_clicks, next_url, response>>

\* the wait before the load-more phase; if it raises, the outer except
\* logs it and scroll_and_load returns
Settle ==
    /\ pc = "settle"
    /\ \/ /\ pc' = "load_more"
          /\ load_i' = 1
       \/ /\ pc' = "heuristic"
          /\ load_i' = 1
    /\ scroll_i' = 0
    /\ current_height' = 0
    /\ scrollHeight' = 0
    /\ UNCHANGED <<aux, contributed, http, site, url, site_page, max_count, browser, context, exc,
                   review_list, successful_pages, curr_page, initial_count,
                   new_batch, has_next, result, cleaned, selectors, ai_reviews,
                   sel_i, pages_grabbed,
                   load_clicks, next_url, response>>

\* LoadMoreClick that gives up the selector after one click
LoadMoreClickCapped ==
    /\ pc = "load_more"
    /\ load_i <= NumLoadMoreSelectors
    /\ IF load_clicks < 1
       THEN load_clicks' = load_clicks + 1 /\ load_i' = load_i
       ELSE load_clicks' = 0 /\ load_i' = load_i + 1
    /\ UNCHANGED <<aux, contributed, scrollHeight,
                   http, site, url, site_page, max_count, pc, browser, context, exc,
                   review_list, successful_pages, curr_page, initial_count,
                   new_batch, has_next, result, cleaned, selectors, ai_reviews,
                   scroll_i, current_height, sel_i, pages_grabbed, next_url, response>>

\* a pass of "while True" for load_more_selectors[load_i] that finds a
\* visible button and clicks it: the same selector is queried again
LoadMoreClick ==
    /\ pc = "load_more"
    /\ load_i <= NumLoadMoreSelectors
    /\ load_clicks' = (load_clicks + 1) % 2
    /\ UNCHANGED <<aux, contributed, scrollHeight,
                   http, site, url, site_page, max_count, pc, browser, context, exc,
                   review_list, successful_pages, curr_page, initial_count,
                   new_batch, has_next, result, cleaned, selectors, ai_reviews,
                   scroll_i, current_height, load_i, sel_i, pages_grabbed, next_url, response>>

\* a pass that finds no button or an invisible one (break), or in which a
\* call raises (continue): the next selector is tried
LoadMoreLeave ==
    /\ pc = "load_more"
    /\ load_i <= NumLoadMoreSelectors
    /\ load_i' = load_i + 1
    /\ load_clicks' = 0
    /\ UNCHANGED <<aux, contributed, scrollHeight,
                   http, site, url, site_page, max_count, pc, browser, context, exc,
                   review_list, successful_pages, curr_page, initial_count,
                   new_batch, has_next, result, cleaned, selectors, ai_reviews,
                   scroll_i, current_height, sel_i, pages_grabbed, next_url, response>>

\* every load-more selector was tried: scroll_and_load returns
LoadMoreDone ==
    /\ pc = "load_more"
    /\ load_i > NumLoadMoreSelectors
    /\ pc' = "heuristic"
    /\ load_i' = 1
    /\ UNCHANGED <<aux, contributed, scrollHeight,
                   http, site, url, site_page, max_count, browser, context, exc,
                   review_list, successful_pages, curr_page, initial_count,
                   new_batch, has_next, result, cleaned, selectors, ai_reviews,
                   scroll_i, current_height, sel_i, pages_grabbed,
                   load_clicks, next_url, response>>

(***************************************************************************)
(* grab_reviews                                                            *)
(***************************************************************************)
\* getStars: the first candidate within [0, 5], else null
RECURSIVE GetStars(_)
GetStars(candidates) ==
    IF candidates = <<>> THEN NoStars
    ELSE IF Head(candidates) >= 0 /\ Head(candidates) <= 50 THEN <<Head(candidates)>>
    ELSE GetStars(Tail(candidates))

\* isValid: not empty, no boilerplate, at least 3 words
IsValid(text) == text # 0 /\ Tokens(text) >= 3

\* the forEach over review_boxes: a box is kept iff isValid(text) and the
\* text is not in seen
RECURSIVE HeuristicFound(_, _, _)
HeuristicFound(boxes, seen, found) ==
    IF boxes = <<>> THEN found
    ELSE LET text == Head(boxes)
             stars == GetStars(StarCandidates(site, text))
         IN  IF IsValid(text) /\ text \notin seen
             THEN HeuristicFound(Tail(boxes), seen \cup {text},
                                 Append(found, [text |-> text, stars |-> stars]))
             ELSE HeuristicFound(Tail(boxes), seen, found)

\* review['stars'] = float(review['stars']); None when outside [0, 5]
CleanStars(stars) ==
    IF stars # NoStars /\ ~(stars[1] >= 0 /\ stars[1] <= 50) THEN NoStars ELSE stars

\* "Clean up and validate reviews": keeps the reviews whose text is non-empty
\* and has at least 3 words, with the stars checked again
Cleaned(reviews) ==
    LET kept == SelectSeq(reviews, LAMBDA review : review.text # 0 /\ Tokens(review.text) >= 3)
    IN  [i \in DOMAIN kept |-> [text |-> kept[i].text, stars |-> CleanStars(kept[i].stars)]]

\* stars = parseFloat(match[1]): parseFloat reads "4,5" as 4; there is no
\* test of the range
AiStars(match) ==
    IF match = <<>> THEN NoStars
    ELSE IF match[1].sep = "." THEN <<match[1].int * 10 + match[1].dec>>
    ELSE <<match[1].int * 10>>

\* the script run with the discovered selectors: a text is kept iff it is
\* non-empty, at least 10 characters long and not in seen
RECURSIVE AiFound(_, _, _)
AiFound(boxes, seen, found) ==
    IF boxes = <<>> THEN found
    ELSE LET text == Head(boxes) IN
         IF text = 0 \/ text \in seen
         THEN AiFound(Tail(boxes), seen, found)
         ELSE AiFound(Tail(boxes), seen \cup {text},
                      Append(found, [text |-> text,
                                     stars |-> AiStars(RatingMatch(site, text))]))

\* one of the two loops of "Combine reviews from both methods"
RECURSIVE AddUnseen(_, _)
AddUnseen(all_reviews, reviews) ==
    IF reviews = <<>> THEN all_reviews
    ELSE LET review == Head(reviews) IN
         IF review.text \notin Texts(all_reviews)
         THEN AddUnseen(Append(all_reviews, review), Tail(reviews))
         ELSE AddUnseen(all_reviews, Tail(reviews))

\* AllReviews without the test against seen_text
AllReviewsConcat(cleaned_reviews, ai) == cleaned_reviews \o ai

\* "Combine reviews from both methods": seen_text is Texts(all_reviews)
AllReviews(cleaned_reviews, ai) == AddUnseen(AddUnseen(<<>>, cleaned_reviews), ai)

\* an exception inside the try of scrape_site: control goes to finally
Raise ==
    /\ pc' = "finally"
    /\ exc' = pc

\* the first page.evaluate of grab_reviews and the clean-up loop
Heuristic ==
    /\ pc = "heuristic"
    /\ pages_grabbed' = pages_grabbed + 1
    /\ \/ /\ \E boxes \in HeuristicBoxes(site, site_page) :
                cleaned' = Cleaned(HeuristicFound(boxes, {}, <<>>))
          /\ pc' = "llm"
          /\ exc' = exc
       \/ /\ Raise
          /\ cleaned' = cleaned
    /\ UNCHANGED <<aux, contributed, scrollHeight,
                   http, site, url, site_page, max_count, browser, context,
                   review_list, successful_pages, curr_page, initial_count,
                   new_batch, has_next, result, selectors, ai_reviews,
                   scroll_i, current_height, load_i, sel_i, load_clicks,
                   next_url, response>>

\* an exception leaves grab_reviews: its locals are gone
LeaveGrabReviews ==
    /\ Raise
    /\ cleaned' = <<>>
    /\ selectors' = FALSE

\* page.content(), openai.ChatCompletion.create, reading and parsing the
\* reply: nothing in grab_reviews catches an exception of these calls
AskModel ==
    /\ pc = "llm"
    /\ \/ /\ selectors' \in BOOLEAN
          /\ cleaned' = cleaned
          /\ pc' = "ai_evaluate"
          /\ exc' = exc
       \/ LeaveGrabReviews
    /\ UNCHANGED <<aux, contributed, scrollHeight,
                   http, site, url, site_page, max_count, browser, context,
                   review_list, successful_pages, curr_page, initial_count,
                   new_batch, has_next, result, ai_reviews, scroll_i,
                   current_height, load_i, sel_i, pages_grabbed,
                   load_clicks, next_url, response>>

\* the second page.evaluate of grab_reviews ("Try AI selectors"), then the
\* two combining loops and "return all_reviews", which binds new_batch
AiEvaluate ==
    /\ pc = "ai_evaluate"
    /\ \/ /\ \E boxes \in AiBoxes(site, site_page) :
                LET found == IF selectors THEN AiFound(boxes, {}, <<>>) ELSE <<>>
                IN  /\ ai_reviews' = found
                    /\ new_batch' = AllReviews(cleaned, found)
          /\ pc' = "dedupe"
          /\ exc' = exc
          /\ UNCHANGED <<cleaned, selectors>>
       \/ /\ LeaveGrabReviews
          /\ UNCHANGED <<ai_reviews, new_batch>>
    /\ UNCHANGED <<aux, contributed, scrollHeight,
                   http, site, url, site_page, max_count, browser, context,
                   review_list, successful_pages, curr_page, initial_count,
                   has_next, result, scroll_i,
                   current_height, load_i, sel_i, pages_grabbed,
                   load_clicks, next_url, response>>

(***************************************************************************)
(* scrape_site: the body of the loop after grab_reviews                    *)
(***************************************************************************)
\* UniqueReviews without the test against existing_texts
UniqueReviewsUnfiltered(batch, existing_texts) == batch

\* unique_reviews = [r for r in new_batch if r['text'] not in existing_texts]
UniqueReviews(batch, existing_texts) ==
    SelectSeq(batch, LAMBDA r : r.text \notin existing_texts)

\* FormattedReviews cut off where review_list would reach max_count
FormattedReviewsTruncated(unique_reviews) ==
    LET room == IF max_count > Len(review_list) THEN max_count - Len(review_list) ELSE 0
        kept == IF Len(unique_reviews) < room THEN Len(unique_reviews) ELSE room
    IN  [i \in 1..kept |-> [text |-> unique_reviews[i].text,
                            stars |-> unique_reviews[i].stars]]

\* FormattedReviews in the reverse order
FormattedReviewsReversed(unique_reviews) ==
    [i \in DOMAIN unique_reviews |->
        [text |-> unique_reviews[Len(unique_reviews) + 1 - i].text,
         stars |-> unique_reviews[Len(unique_reviews) + 1 - i].stars]]

\* formatted_reviews: the fields of each review copied into a new record
FormattedReviews(unique_reviews) ==
    [i \in DOMAIN unique_reviews |-> [text |-> unique_reviews[i].text,
                                      stars |-> unique_reviews[i].stars]]

\* Dedupe that counts every page with a non-empty batch as successful
DedupeCountsBatch ==
    /\ pc = "dedupe"
    /\ IF new_batch # <<>>
       THEN LET existing_texts == Texts(review_list)
                unique_reviews == UniqueReviews(new_batch, existing_texts)
                extended == review_list \o FormattedReviews(unique_reviews)
            IN  /\ initial_count' = Len(review_list)
                /\ review_list' = extended
                /\ contributed' = (Len(extended) > Len(review_list))
                /\ IF Len(extended) > Len(review_list)
                   THEN /\ successful_pages' = successful_pages + 1
                        /\ pc' = "cap"
                   ELSE /\ successful_pages' = successful_pages + 1
                        /\ pc' = "result"
       ELSE /\ pc' = "result"
            /\ UNCHANGED <<initial_count, review_list, successful_pages, contributed>>
    /\ cleaned' = <<>>
    /\ ai_reviews' = <<>>
    /\ selectors' = FALSE
    /\ UNCHANGED <<aux, scrollHeight, http, site, url, site_page, max_count, browser, context, exc,
                   curr_page, new_batch, has_next, result, scroll_i,
                   current_height, load_i, sel_i, pages_grabbed,
                   load_clicks, next_url, response>>

\* Dedupe without the break on "No new unique reviews found"
DedupeKeepsGoing ==
    /\ pc = "dedupe"
    /\ IF new_batch # <<>>
       THEN LET existing_texts == Texts(review_list)
                unique_reviews == UniqueReviews(new_batch, existing_texts)
                extended == review_list \o FormattedReviews(unique_reviews)
            IN  /\ initial_count' = Len(review_list)
                /\ review_list' = extended
                /\ contributed' = (Len(extended) > Len(review_list))
                /\ IF Len(extended) > Len(review_list)
                   THEN /\ successful_pages' = successful_pages + 1
                        /\ pc' = "cap"
                   ELSE /\ successful_pages' = successful_pages
                        /\ pc' = "cap"
       ELSE /\ pc' = "result"
            /\ UNCHANGED <<initial_count, review_list, successful_pages, contributed>>
    /\ cleaned' = <<>>
    /\ ai_reviews' = <<>>
    /\ selectors' = FALSE
    /\ UNCHANGED <<aux, scrollHeight, http, site, url, site_page, max_count, browser, context, exc,
                   curr_page, new_batch, has_next, result, scroll_i,
                   current_height, load_i, sel_i, pages_grabbed,
                   load_clicks, next_url, response>>

\* "if new_batch: ... else: break" (lines 585-609); cleaned, selectors and
\* ai_reviews, locals of the grab_reviews call that returned, are dropped
Dedupe ==
    /\ pc = "dedupe"
    /\ IF new_batch # <<>>
       THEN LET existing_texts == Texts(review_list)
                unique_reviews == UniqueReviews(new_batch, existing_texts)
                extended == review_list \o FormattedReviews(unique_reviews)
            IN  /\ initial_count' = Len(review_list)
                /\ review_list' = extended
                /\ contributed' = (Len(extended) > Len(review_list))
                /\ IF Len(extended) > Len(review_list)
                   THEN /\ successful_pages' = successful_pages + 1
                        /\ pc' = "cap"
                   ELSE /\ successful_pages' = successful_pages
                        /\ pc' = "result"
       ELSE /\ pc' = "result"
            /\ UNCHANGED <<initial_count, review_list, successful_pages, contributed>>
    /\ cleaned' = <<>>
    /\ ai_reviews' = <<>>
    /\ selectors' = FALSE
    /\ UNCHANGED <<aux, scrollHeight, http, site, url, site_page, max_count, browser, context, exc,
                   curr_page, new_batch, has_next, result, scroll_i,
                   current_height, load_i, sel_i, pages_grabbed,
                   load_clicks, next_url, response>>

\* new_batch and initial_count are not read again before the next iteration
\* rebinds them
NextIteration ==
    /\ new_batch' = <<>>
    /\ initial_count' = 0

\* "if len(review_list) < max_count: handle_pagination(...) else: break"
CapTest ==
    /\ pc = "cap"
    /\ IF Len(review_list) < max_count
       THEN /\ pc' = "pag_click"
            /\ NextIteration
       ELSE /\ pc' = "result"
            /\ UNCHANGED <<new_batch, initial_count>>
    /\ sel_i' = 1
    /\ has_next' = FALSE
    /\ UNCHANGED <<aux, contributed, scrollHeight,
                   http, site, url, site_page, max_count, browser, context, exc,
                   review_list, successful_pages, curr_page, result, cleaned,
                   selectors, ai_reviews, scroll_i, current_height, load_i,
                   pages_grabbed,
                   load_clicks, next_url, response>>

(***************************************************************************)
(* handle_pagination                                                       *)
(***************************************************************************)
\* 'page=' in current_url
HasPageEq(u) == \E i \in DOMAIN u : u[i].k \in {"page=N", "page="}

\* '?' in current_url
HasQuery(u) == \E i \in DOMAIN u : u[i].k = "?"

\* re.sub(r'page=\d+', f'page={curr_page + 1}', current_url)
SubPage(u, n) == [i \in DOMAIN u |-> IF u[i].k = "page=N" THEN PageTok(n) ELSE u[i]]

\* NextUrl that writes curr_page instead of curr_page + 1
NextUrlSamePage(current_url, page_no) ==
    IF HasPageEq(current_url)
    THEN SubPage(current_url, page_no)
    ELSE current_url \o <<Tok(IF HasQuery(current_url) THEN "&" ELSE "?"),
                           PageTok(page_no)>>

\* next_url of the URL-rewrite fallback (lines 231-236)
NextUrl(current_url, page_no) ==
    IF HasPageEq(current_url)
    THEN SubPage(current_url, page_no + 1)
    ELSE current_url \o <<Tok(IF HasQuery(current_url) THEN "&" ELSE "?"),
                           PageTok(page_no + 1)>>

\* a paged site has a next page while site_page < pages
SiteHasNext == site.kind = "free" \/ site_page < site.pages

\* the browser shows the next page of a paged site
SiteAdvance == site_page' = IF site.kind = "free" THEN site_page ELSE site_page + 1

\* URLs a click on a pagination control can lead to: the controls of
\* FreeSite are links to ?page=N, those of the strict sites change the HTML
\* only, those of UrlSite are of either sort
ClickUrls ==
    IF site = UrlSite
    THEN {url, <<Tok("host"), Tok("?"), PageTok(curr_page + 1)>>}
    ELSE IF site = FreeSite
    THEN {<<Tok("host"), Tok("?"), PageTok(curr_page + 1)>>}
    ELSE {url}

\* the selector is left for the next one: "continue", or the end of the
\* loop body
NextSelector ==
    /\ sel_i' = sel_i + 1
    /\ UNCHANGED <<pc, exc, has_next, url, site_page>>

\* wait_for_selector timed out (bare except: continue), or query_selector
\* gave no element, or the element is not visible
PaginationNoElement == NextSelector

\* PaginationSelectorError with the exception leaving handle_pagination
PaginationSelectorErrorRaises ==
    /\ pc' = "finally"
    /\ exc' = pc
    /\ UNCHANGED <<sel_i, has_next, url, site_page>>

\* a call between query_selector and the comparison raised (is_visible,
\* page.content, scrolling, both ways of clicking, the waits):
\* "except Exception: continue"
PaginationSelectorError == NextSelector

\* PaginationClick that goes on to the next selector after a change
PaginationClickTriesOn(after_url, html_changed) ==
    IF after_url # url \/ html_changed
    THEN /\ SiteHasNext
         /\ after_url \in ClickUrls
         /\ SiteAdvance
         /\ url' = after_url
         /\ sel_i' = sel_i + 1
         /\ UNCHANGED <<pc, exc, has_next>>
    ELSE NextSelector

\* the element was clicked; after_url and html_changed are what the
\* comparison with before_url and before_html finds (lines 206-225)
PaginationClick(after_url, html_changed) ==
    IF after_url # url \/ html_changed
    THEN /\ SiteHasNext
         /\ after_url \in ClickUrls
         /\ SiteAdvance
         /\ url' = after_url
         /\ has_next' = TRUE
         /\ pc' = "pag_return"
         /\ exc' = exc
         /\ sel_i' = 1
    ELSE NextSelector

\* one iteration of "for selector in selectors" (lines 196-228)
PaginationSelector ==
    /\ pc = "pag_click"
    /\ sel_i <= NumPaginationSelectors
    /\ \/ PaginationNoElement
       \/ PaginationSelectorError
       \/ \E after_url \in {url} \cup ClickUrls, html_changed \in BOOLEAN :
             PaginationClick(after_url, html_changed)
    /\ UNCHANGED <<aux, contributed, scrollHeight,
                   http, site, max_count, browser, context, review_list,
                   successful_pages, curr_page, initial_count, new_batch,
                   result, cleaned, selectors, ai_reviews, scroll_i,
                   current_height, load_i, pages_grabbed,
                   load_clicks, next_url, response>>

\* PaginationUrl that returns True whatever the response
PaginationUrlAlwaysTrue ==
    /\ pc = "pag_click"
    /\ sel_i > NumPaginationSelectors
    /\ next_url' = NextUrl(url, curr_page)
    /\ response' \in {"ok", "not_ok", "none", "raise"}
    /\ response' = "ok" => SiteHasNext
    /\ site.nav = "strict" /\ SiteHasNext => response' = "ok"
    /\ url' = IF response' = "raise" THEN url ELSE next_url'
    /\ IF response' = "ok" /\ next_url' # url
       THEN SiteAdvance
       ELSE site_page' = site_page
    /\ has_next' = TRUE
    /\ pc' = "pag_return"
    /\ sel_i' = 1
    /\ UNCHANGED <<aux, contributed, scrollHeight,
                   http, site, max_count, browser, context, exc, review_list,
                   successful_pages, curr_page, initial_count, new_batch,
                   result, cleaned, selectors, ai_reviews, scroll_i,
                   current_height, load_i, pages_grabbed,
                   load_clicks>>

\* the URL-rewrite fallback (lines 230-246), reached when no selector
\* produced a change
PaginationUrl ==
    /\ pc = "pag_click"
    /\ sel_i > NumPaginationSelectors
    /\ next_url' = NextUrl(url, curr_page)
    /\ response' \in {"ok", "not_ok", "none", "raise"}
    /\ response' = "ok" => SiteHasNext
    /\ site.nav = "strict" /\ SiteHasNext => response' = "ok"
    /\ url' = IF response' = "raise" THEN url ELSE next_url'
    /\ IF response' = "ok" /\ next_url' # url
       THEN SiteAdvance
       ELSE site_page' = site_page
    /\ has_next' = (response' = "ok")
    /\ pc' = "pag_return"
    /\ sel_i' = 1
    /\ UNCHANGED <<aux, contributed, scrollHeight,
                   http, site, max_count, browser, context, exc, review_list,
                   successful_pages, curr_page, initial_count, new_batch,
                   result, cleaned, selectors, ai_reviews, scroll_i,
                   current_height, load_i, pages_grabbed,
                   load_clicks>>

\* PaginationReturn without "if not has_next: break"
PaginationReturnAlways ==
    /\ pc = "pag_return"
    /\ IF TRUE
       THEN /\ curr_page' = curr_page + 1
            /\ pc' = "while"
       ELSE /\ curr_page' = curr_page
            /\ pc' = "result"
    /\ next_url' = <<>>
    /\ response' = "unbound"
    /\ UNCHANGED <<aux, contributed, scrollHeight,
                   http, site, url, site_page, max_count, browser, context, exc,
                   review_list, successful_pages, initial_count, new_batch,
                   has_next, result, cleaned, selectors, ai_reviews, scroll_i,
                   current_height, load_i, sel_i, pages_grabbed,
                   load_clicks>>

\* back in scrape_site: "if not has_next: break" and "curr_page += 1"
PaginationReturn ==
    /\ pc = "pag_return"
    /\ IF has_next
       THEN /\ curr_page' = curr_page + 1
            /\ pc' = "while"
       ELSE /\ curr_page' = curr_page
            /\ pc' = "result"
    /\ next_url' = <<>>
    /\ response' = "unbound"
    /\ UNCHANGED <<aux, contributed, scrollHeight,
                   http, site, url, site_page, max_count, browser, context, exc,
                   review_list, successful_pages, initial_count, new_batch,
                   has_next, result, cleaned, selectors, ai_reviews, scroll_i,
                   current_height, load_i, sel_i, pages_grabbed,
                   load_clicks>>

(***************************************************************************)
(* scrape_site: result and release of the session                          *)
(***************************************************************************)
\* result = {"reviews_count": ..., "reviews": review_list}; return result
Result ==
    /\ pc = "result"
    /\ result' = [reviews_count |-> Len(review_list), reviews |-> review_list]
    /\ pc' = "finally"
    /\ UNCHANGED <<aux, contributed, scrollHeight,
                   http, site, url, site_page, max_count, browser, context, exc,
                   review_list, successful_pages, curr_page, initial_count,
                   new_batch, has_next, cleaned, selectors, ai_reviews,
                   scroll_i, current_height, load_i, sel_i, pages_grabbed,
                   load_clicks, next_url, response>>

\* finally: await context.close(); if it raises, browser.close() is skipped
CloseContext ==
    /\ pc = "finally"
    /\ \/ /\ context' = "closed"
          /\ pc' = "close_browser"
          /\ exc' = exc
       \/ /\ context' = context
          /\ pc' = "done"
          /\ exc' = pc
    /\ UNCHANGED <<aux, contributed, scrollHeight,
                   http, site, url, site_page, max_count, browser, review_list,
                   successful_pages, curr_page, initial_count, new_batch,
                   has_next, result, cleaned, selectors, ai_reviews, scroll_i,
                   current_height, load_i, sel_i, pages_grabbed,
                   load_clicks, next_url, response>>

\* finally: await browser.close(); then control returns to the caller
CloseBrowser ==
    /\ pc = "close_browser"
    /\ \/ /\ browser' = "closed"
          /\ exc' = exc
       \/ /\ browser' = browser
          /\ exc' = pc
    /\ pc' = "done"
    /\ UNCHANGED <<aux, contributed, scrollHeight,
                   http, site, url, site_page, max_count, context, review_list,
                   successful_pages, curr_page, initial_count, new_batch,
                   has_next, result, cleaned, selectors, ai_reviews, scroll_i,
                   current_height, load_i, sel_i, pages_grabbed,
                   load_clicks, next_url, response>>

(***************************************************************************)
(* get_reviews, the endpoint that awaits scrape_site (lines 631-661)       *)
(***************************************************************************)
\* "except Exception as e: raise HTTPException(status_code=500,
\* detail=f"Error scraping reviews: {str(e)}")"
ErrorResponse(e) == [http EXCEPT !.status = 500, !.detail = e]

\* "return result", or with download the FileResponse
OkResponse == [http EXCEPT !.status = 200, !.body = IF http.download THEN "file" ELSE "json"]

\* GetReviews that answers an exception of scrape_site with an empty result
GetReviewsSwallows ==
    /\ pc = "done"
    /\ pc' = "responded"
    /\ \/ /\ exc = "none"
          /\ \/ http' = OkResponse
             \/ http.download /\ http' = ErrorResponse("download")
       \/ /\ exc # "none"
          /\ http' = OkResponse
    /\ UNCHANGED <<aux, contributed, scrollHeight,
                   site, url, site_page, max_count, browser, context, exc,
                   review_list, successful_pages, curr_page, initial_count,
                   new_batch, has_next, result, cleaned, selectors, ai_reviews,
                   scroll_i, current_height, load_i, sel_i, pages_grabbed,
                   load_clicks, next_url, response>>

\* scrape_site is back at get_reviews: the result is returned as JSON, or
\* with download as a file (writing the file can raise), or the exception
\* that left scrape_site is turned into the error response
GetReviews ==
    /\ pc = "done"
    /\ pc' = "responded"
    /\ \/ /\ exc = "none"
          /\ \/ http' = OkResponse
             \/ http.download /\ http' = ErrorResponse("download")
       \/ /\ exc # "none"
          /\ http' = ErrorResponse(exc)
    /\ UNCHANGED <<aux, contributed, scrollHeight,
                   site, url, site_page, max_count, browser, context, exc,
                   review_list, successful_pages, curr_page, initial_count,
                   new_batch, has_next, result, cleaned, selectors, ai_reviews,
                   scroll_i, current_height, load_i, sel_i, pages_grabbed,
                   load_clicks, next_url, response>>

Next ==
    \/ Launch
    \/ NewContext
    \/ NewPage
    \/ Goto
    \/ LoopTest
    \/ ScrollIteration
    \/ Settle
    \/ LoadMoreClick
    \/ LoadMoreLeave
    \/ LoadMoreDone
    \/ Heuristic
    \/ AskModel
    \/ AiEvaluate
    \/ Dedupe
    \/ CapTest
    \/ PaginationSelector
    \/ PaginationUrl
    \/ PaginationReturn
    \/ Result
    \/ CloseContext
    \/ CloseBrowser
    \/ GetReviews

Spec == Init /\ [][Next]_vars

\* every call into the browser or the model returns or raises, and each
\* load-more loop is left: each per-page step terminates
FairSpec == Spec /\ WF_vars(Next) /\ WF_vars(LoadMoreLeave)

(***************************************************************************)
(* cleanText (main.py 254-278).  A text is a sequence of symbols: a word   *)
(* of the vocabulary, taken as a whole, or one whitespace character.  No   *)
(* word of the vocabulary begins or ends with another, so that one text is *)
(* part of another only along whole symbols.                               *)
(***************************************************************************)
Vocabulary == {"a", "more", "read"}

IsSpace(c) == c \in {" ", "\n"}

Least(S) == CHOOSE i \in S : \A j \in S : i <= j

RECURSIVE DropSpaces(_)
DropSpaces(text) ==
    IF text # <<>> /\ IsSpace(Head(text)) THEN DropSpaces(Tail(text)) ELSE text

\* text.replace(/\s+/g, ' ')
RECURSIVE CollapseSpaces(_)
CollapseSpaces(text) ==
    IF text = <<>> THEN <<>>
    ELSE IF IsSpace(Head(text))
    THEN <<" ">> \o CollapseSpaces(DropSpaces(Tail(text)))
    ELSE <<Head(text)>> \o CollapseSpaces(Tail(text))

\* .replace(/\r?\n/g, ' ')
ReplaceNewlines(text) ==
    [i \in DOMAIN text |-> IF text[i] = "\n" THEN " " ELSE text[i]]

RECURSIVE DropSpacesAtEnd(_)
DropSpacesAtEnd(text) ==
    IF text # <<>> /\ IsSpace(text[Len(text)])
    THEN DropSpacesAtEnd(SubSeq(text, 1, Len(text) - 1))
    ELSE text

\* .trim()
Trim(text) == DropSpacesAtEnd(DropSpaces(text))

\* text.split(/(?:read more|show more|see more)/i)[0]
BeforeReadMore(text) ==
    LET hits == {i \in 1..(Len(text) - 2) :
                    /\ text[i] \in {"read", "show", "see"}
                    /\ text[i + 1] = " "
                    /\ text[i + 2] = "more"}
    IN  IF hits = {} THEN text ELSE SubSeq(text, 1, Least(hits) - 1)

\* text.split(' '): the pieces between the spaces, empty pieces included
RECURSIVE SplitSpace(_)
SplitSpace(text) ==
    LET spaces == {i \in 1..Len(text) : text[i] = " "}
    IN  IF spaces = {} THEN <<text>>
        ELSE <<SubSeq(text, 1, Least(spaces) - 1)>>
             \o SplitSpace(SubSeq(text, Least(spaces) + 1, Len(text)))

\* words.join(' ')
RECURSIVE JoinSpace(_)
JoinSpace(words) ==
    IF words = <<>> THEN <<>>
    ELSE IF Len(words) = 1 THEN words[1]
    ELSE words[1] \o <<" ">> \o JoinSpace(Tail(words))

\* text.includes(phrase)
Includes(text, phrase) ==
    \E i \in 0..(Len(text) - Len(phrase)) : SubSeq(text, i + 1, i + Len(phrase)) = phrase

\* the for loop over words, from index i (counted from 1) on
RECURSIVE CollapsePhrases(_, _, _)
CollapsePhrases(words, i, cleanedText) ==
    IF i > Len(words) THEN cleanedText
    ELSE LET last == IF i + 2 <= Len(words) THEN i + 2 ELSE Len(words)
             currentPhrase == JoinSpace(SubSeq(words, i, last))
         IN  IF Includes(cleanedText, currentPhrase) /\ Len(SplitSpace(currentPhrase)) > 2
             THEN CollapsePhrases(words, i + 1, cleanedText)
             ELSE CollapsePhrases(words, i + 1,
                                  (IF cleanedText # <<>> THEN cleanedText \o <<" ">>
                                                         ELSE cleanedText) \o words[i])

cleanText(text) ==
    IF text = <<>> THEN <<>>
    ELSE LET collapsed == Trim(ReplaceNewlines(CollapseSpaces(text)))
             words == SplitSpace(BeforeReadMore(collapsed))
         IN  Trim(CollapsePhrases(words, 1, <<>>))

\* the words w with sep between them, and with sep around them if padded
RECURSIVE JoinWith(_, _)
JoinWith(w, sep) ==
    IF w = <<>> THEN <<>>
    ELSE IF Len(w) = 1 THEN <<w[1]>>
    ELSE <<w[1]>> \o sep \o JoinWith(Tail(w), sep)

\* the texts cleanText is applied to
CleanInputs ==
    {IF padded THEN sep \o JoinWith(w, sep) \o sep ELSE JoinWith(w, sep) :
        w \in BoundedSeq(Vocabulary, MaxWords),
        sep \in {<<" ">>, <<" ", " ">>, <<"\n">>},
        padded \in BOOLEAN}

CleanInit ==
    /\ MainInit({RatedSite})
    /\ norm \in {[pc |-> "input", text |-> x, once |-> <<>>, twice |-> <<>>] :
                    x \in CleanInputs}
    /\ disc = DiscIdle
    /\ runs = [r \in Runs |-> NoRun]
    /\ guided = GuidedIdle

\* cleanText(text)
NormalizeOnce ==
    /\ norm.pc = "input"
    /\ norm' = [norm EXCEPT !.pc = "once", !.once = cleanText(norm.text)]
    /\ UNCHANGED <<main, disc, runs, guided>>

\* cleanText of the text cleanText returned
NormalizeTwice ==
    /\ norm.pc = "once"
    /\ norm' = [norm EXCEPT !.pc = "twice", !.twice = cleanText(norm.once)]
    /\ UNCHANGED <<main, disc, runs, guided>>

CleanNext == NormalizeOnce \/ NormalizeTwice

CleanSpec == CleanInit /\ [][CleanNext]_vars

(***************************************************************************)
(* get_dynamic_selectors (app.py 257-308).  A line of the reply is a       *)
(* record: label is the label the if/elif chain finds in it ("" for none)  *)
(* and rest is the text after the label (the whole line without a label),  *)
(* a sequence of symbols: a quote character, a comma, or selector text.    *)
(***************************************************************************)
Labels == {"CONTAINERS:", "CONTENT:", "RATINGS:"}

IsQuote(c) == c \in {"'", "\""}

\* the longest run of symbols other than quotes at the start of text
RECURSIVE NoQuoteRun(_)
NoQuoteRun(text) ==
    IF text = <<>> \/ IsQuote(Head(text)) THEN <<>>
    ELSE <<Head(text)>> \o NoQuoteRun(Tail(text))

\* re.findall(r'[\'"]([^\'"]+)[\'"]', line)
RECURSIVE FindAll(_)
FindAll(line) ==
    IF line = <<>> THEN <<>>
    ELSE LET run == NoQuoteRun(Tail(line))
         IN  IF IsQuote(Head(line)) /\ run # <<>> /\ Len(Tail(line)) > Len(run)
             THEN <<run>> \o FindAll(SubSeq(line, Len(run) + 3, Len(line)))
             ELSE FindAll(Tail(line))

\* the for loop over result.split('\n'): current_list is the label seen
\* last, "" while it is None
RECURSIVE ParseLines(_, _, _)
ParseLines(lines, current_list, lists) ==
    IF lines = <<>> THEN lists
    ELSE LET line == Head(lines)
             current == IF line.label # "" THEN line.label ELSE current_list
         IN  IF current = "" THEN ParseLines(Tail(lines), current, lists)
             ELSE ParseLines(Tail(lines), current,
                             [lists EXCEPT ![current] = @ \o FindAll(line.rest)])

\* the body of the try: the call, reading the reply, the parsing
TryBody(reply) ==
    IF reply.kind # "text" THEN [raised |-> TRUE, containers |-> <<>>,
                                 content |-> <<>>, ratings |-> <<>>]
    ELSE LET lists == ParseLines(reply.lines, "", [l \in Labels |-> <<>>])
         IN  Selectors(lists["CONTAINERS:"], lists["CONTENT:"], lists["RATINGS:"])

\* get_dynamic_selectors without the except clause
GetDynamicSelectorsNoExcept(reply) == TryBody(reply)

\* try: ... return containers, content, ratings
\* except Exception: return [], [], []
GetDynamicSelectors(reply) ==
    IF TryBody(reply).raised THEN Selectors(<<>>, <<>>, <<>>) ELSE TryBody(reply)

\* what can stand after the label of a line
Rests ==
    {<<>>,
     <<".a">>,
     <<"'", ".a", "'">>,
     <<"\"", ".a", "\"", ",", "'", ".b", "'">>,
     <<"'", ".a">>,
     <<".a", "'", ",", "'", ".b">>,
     <<"'", "'">>}

ReplyLines == [label : Labels \cup {""}, rest : Rests]

Replies ==
    {[kind |-> "error", lines |-> <<>>], [kind |-> "no_content", lines |-> <<>>]}
    \cup {[kind |-> "text", lines |-> l] : l \in BoundedSeq(ReplyLines, MaxLines)}

DiscInit ==
    /\ MainInit({RatedSite})
    /\ norm = NormIdle
    /\ disc \in {[pc |-> "call", reply |-> r, out |-> Selectors(<<>>, <<>>, <<>>)] :
                    r \in Replies}
    /\ runs = [r \in Runs |-> NoRun]
    /\ guided = GuidedIdle

\* one call of get_dynamic_selectors
DiscoverSelectors ==
    /\ disc.pc = "call"
    /\ disc' = [disc EXCEPT !.pc = "returned", !.out = GetDynamicSelectors(disc.reply)]
    /\ UNCHANGED <<main, norm, runs, guided>>

DiscNext == DiscoverSelectors

DiscSpec == DiscInit /\ [][DiscNext]_vars

(***************************************************************************)
(* Two calls of scrape_site in flight at once (main.py 559-629), each with *)
(* its own browser, context and page.  A step of a call is what it does    *)
(* between two awaits: it takes the answer of its page and runs on to the  *)
(* next await.                                                             *)
(***************************************************************************)
\* the batches grab_reviews can return to either call
ConcBatches == {<<>>, <<Review(1)>>, <<Review(2)>>, <<Review(1), Review(2)>>}

\* the locals after page.goto and "curr_page = 1"
RunStart(count) == [pc |-> "grab", max_count |-> count, review_list |-> <<>>,
                    successful_pages |-> 0, curr_page |-> 1, responses |-> <<>>]

\* grab_reviews returned batch: lines 585-618, up to the call of
\* handle_pagination
AfterBatch(run, existing_texts, batch) ==
    LET unique_reviews == UniqueReviews(batch, existing_texts)
        extended == run.review_list \o FormattedReviews(unique_reviews)
        grew == batch # <<>> /\ Len(extended) > Len(run.review_list)
    IN  [run EXCEPT
           !.review_list = IF batch # <<>> THEN extended ELSE @,
           !.successful_pages = IF grew THEN @ + 1 ELSE @,
           !.pc = IF grew /\ Len(extended) < run.max_count THEN "paginate" ELSE "done",
           !.responses = Append(@, [kind |-> "batch", batch |-> batch, has_next |-> FALSE])]

\* handle_pagination returned has_next: lines 614-618 and the test of the
\* while loop
AfterPagination(run, next) ==
    [run EXCEPT
       !.curr_page = IF next THEN @ + 1 ELSE @,
       !.pc = IF next /\ Len(run.review_list) < run.max_count /\ run.curr_page + 1 <= MaxPages
              THEN "grab" ELSE "done",
       !.responses = Append(@, [kind |-> "next", batch |-> <<>>, has_next |-> next])]

\* ExistingTexts over the review lists of all calls
ExistingTextsShared(r) == UNION {Texts(runs[q].review_list) : q \in Runs}

\* existing_texts = set(r['text'] for r in review_list), review_list being
\* the local of call r
ExistingTexts(r) == Texts(runs[r].review_list)

\* call r gets the batch of its page
RunGrab(r) ==
    /\ runs[r].pc = "grab"
    /\ \E batch \in ConcBatches :
          runs' = [runs EXCEPT ![r] = AfterBatch(runs[r], ExistingTexts(r), batch)]
    /\ UNCHANGED <<main, norm, disc, guided>>

\* call r gets the answer of handle_pagination on its page
RunPaginate(r) ==
    /\ runs[r].pc = "paginate"
    /\ \E next \in BOOLEAN :
          runs' = [runs EXCEPT ![r] = AfterPagination(runs[r], next)]
    /\ UNCHANGED <<main, norm, disc, guided>>

\* the locals of a call that started as run and got the responses
RECURSIVE Replay(_, _)
Replay(run, responses) ==
    IF responses = <<>> THEN run
    ELSE LET answer == Head(responses)
         IN  Replay(IF answer.kind = "batch"
                    THEN AfterBatch(run, Texts(run.review_list), answer.batch)
                    ELSE AfterPagination(run, answer.has_next),
                    Tail(responses))

ConcInit ==
    /\ MainInit({RatedSite})
    /\ norm = NormIdle
    /\ disc = DiscIdle
    /\ runs \in [Runs -> {RunStart(2), RunStart(100)}]
    /\ guided = GuidedIdle

ConcNext == \E r \in Runs : RunGrab(r) \/ RunPaginate(r)

ConcSpec == ConcInit /\ [][ConcNext]_vars

(***************************************************************************)
(* The script grab_reviews runs with the discovered selectors (main.py     *)
(* 499-536), on a page given box by box.  A box is an element one of the   *)
(* container selectors matches, in the order the script visits them; it is *)
(* given as the texts its elements for the first and for the second        *)
(* content selector have, 0 for no element or a text the script rejects.   *)
(***************************************************************************)
ContainerBoxes == (0..NumBodies) \X (0..NumBodies)

\* the texts the inner loop meets, in its order: for each box, for each
\* content selector; no pass of the inner loop ends it
RECURSIVE ContentElements(_)
ContentElements(boxes) ==
    IF boxes = <<>> THEN <<>>
    ELSE <<Head(boxes)[1], Head(boxes)[2]>> \o ContentElements(Tail(boxes))

\* found, as the script returns it
AiScript(boxes) == AiFound(ContentElements(boxes), {}, <<>>)

GuidedInit ==
    /\ MainInit({RatedSite})
    /\ norm = NormIdle
    /\ disc = DiscIdle
    /\ runs = [r \in Runs |-> NoRun]
    /\ guided \in {[pc |-> "evaluate", boxes |-> b, found |-> <<>>] :
                      b \in BoundedSeq(ContainerBoxes, MaxBoxes)}

\* page.evaluate of the script
GuidedEvaluate ==
    /\ guided.pc = "evaluate"
    /\ guided' = [guided EXCEPT !.pc = "returned", !.found = AiScript(guided.boxes)]
    /\ UNCHANGED <<main, norm, disc, runs>>

GuidedNext == GuidedEvaluate

GuidedSpec == GuidedInit /\ [][GuidedNext]_vars

(***************************************************************************)
(* Properties                                                              *)
(***************************************************************************)
NoRepeatedText(reviews) ==
    \A i, j \in DOMAIN reviews : i # j => reviews[i].text # reviews[j].text

\* the positions of scrape_site that lie inside the while loop
InLoop == {"scroll", "settle", "load_more", "heuristic", "llm", "ai_evaluate",
           "dedupe", "cap", "pag_click", "pag_return"}

\* C1: in every reachable state of a run no two reviews of review_list have
\* the same text, however the batches of the pages overlap.
C1_UniqueBodies == NoRepeatedText(review_list)

\* a second page whose batch repeated a text of an earlier page and also
\* brought a new one has been appended
C1_Witness ==
    /\ pc = "cap"
    /\ curr_page >= 2
    /\ initial_count >= 1
    /\ Len(review_list) > initial_count
    /\ \E i \in DOMAIN new_batch :
          new_batch[i].text \in Texts(SubSeq(review_list, 1, initial_count))

\* C2: review_list grows only in the dedupe step, only from a length below
\* max_count, and by every novel review of new_batch (never cut off at
\* max_count); so the count stays below max_count plus the size of the last
\* batch; with the count at max_count or above after the append the loop ends
\* without a call of handle_pagination; max_count = 8 with 5 novel reviews
\* per page returns 10 reviews.
C2_AppendInFull ==
    /\ [][review_list' # review_list =>
            /\ pc = "dedupe"
            /\ Len(review_list) < max_count
            /\ SubSeq(review_list', 1, Len(review_list)) = review_list
            /\ Len(review_list') =
                  Len(review_list)
                  + Cardinality(Texts(new_batch) \ Texts(review_list))
            /\ Texts(review_list') = Texts(review_list) \cup Texts(new_batch)]_vars
    /\ [][pc = "cap" /\ Len(review_list) >= max_count => pc' = "result"]_vars
    /\ [](pc \in {"pag_click", "pag_return"} => Len(review_list) < max_count)
    /\ [](pc = "cap" =>
            /\ initial_count < max_count
            /\ Len(review_list) - initial_count <= Len(new_batch)
            /\ Len(review_list) < max_count + Len(new_batch))
    /\ [](result # NoResult /\ result.reviews_count >= max_count =>
            result.reviews_count < max_count + Len(new_batch))
    /\ [](site = ScenarioSite /\ max_count = 8 /\ result # NoResult =>
            result.reviews_count = 10)

\* the run with max_count = 8 on the site with 5 reviews per page returned
C2_Witness ==
    /\ site = ScenarioSite
    /\ max_count = 8
    /\ pc = "done"
    /\ exc = "none"
    /\ result.reviews_count = 10
    /\ initial_count = 5
    /\ curr_page = 2

\* C3: curr_page is bound to 1 after the initial navigation and afterwards
\* changes only by +1, in the step that follows a call of handle_pagination
\* that returned True; no other step of the loop changes it.
C3_PageCounter ==
    /\ [][curr_page' # curr_page =>
            \/ pc = "goto" /\ curr_page' = 1
            \/ pc = "pag_return" /\ has_next /\ curr_page' = curr_page + 1]_vars
    /\ [](pc \in InLoop \cup {"while"} => curr_page >= 1)
    /\ [](pc = "while" /\ pages_grabbed = 0 => curr_page = 1)

\* the loop is on its second page after a successful handle_pagination
C3_Witness == pc = "scroll" /\ curr_page = 2 /\ has_next

\* C4, as claimed: whenever control is back at the caller after the browser
\* was launched, the context and the browser are closed.
C4_SessionReleased ==
    pc = "done" /\ browser # "none" => context = "closed" /\ browser = "closed"

\* C5: a batch without a novel review (empty, or all texts collected
\* before) ends the loop whatever max_count is: review_list and
\* successful_pages stay as they are, the next step builds the result from
\* review_list, and handle_pagination is not called; a batch with some novel
\* reviews appends exactly those and counts the page.
C5_NoNovelStops ==
    /\ [][pc = "dedupe" =>
            LET novel == Texts(new_batch) \ Texts(review_list)
                added == SubSeq(review_list', Len(review_list) + 1, Len(review_list'))
            IN  /\ SubSeq(review_list', 1, Len(review_list)) = review_list
                /\ Texts(added) = novel
                /\ Len(added) = Cardinality(novel)
                /\ IF novel = {}
                   THEN /\ review_list' = review_list
                        /\ successful_pages' = successful_pages
                        /\ pc' = "result"
                   ELSE /\ successful_pages' = successful_pages + 1
                        /\ pc' = "cap"]_vars
    /\ [][pc = "result" => pc' = "finally" /\ result'.reviews = review_list]_vars

\* a second page brought only texts collected before, below max_count
C5_Witness ==
    /\ pc = "finally"
    /\ exc = "none"
    /\ new_batch # <<>>
    /\ initial_count = Len(review_list)
    /\ Len(review_list) < max_count
    /\ pages_grabbed = 2
    /\ successful_pages = 1
    /\ result.reviews = review_list

\* C6: curr_page never exceeds 51 and grab_reviews runs at most 50 times in
\* a run; when every per-page step terminates the run ends, and it ends
\* with a result unless an exception left scrape_site.
C6_PageCap ==
    /\ [](curr_page <= MaxPages + 1 /\ pages_grabbed <= MaxPages)
    /\ <>(pc = "done")
    /\ [](pc = "done" /\ exc = "none" => result # NoResult)

\* fifty pages, each with a novel review and a successful pagination
C6_Witness ==
    /\ pc = "done"
    /\ exc = "none"
    /\ curr_page = MaxPages + 1
    /\ pages_grabbed = MaxPages
    /\ result.reviews_count = MaxPages
    /\ Len(review_list) < max_count

\* C7, as claimed: no run ends with an exception of the LLM path of
\* grab_reviews (page HTML, model call, reply parsing, applying selectors).
C7_LlmFailureContained == exc \notin {"llm", "ai_evaluate"}

\* C8: the batch grab_reviews returns is the heuristic reviews in their
\* order followed by the LLM-guided reviews whose text no heuristic review
\* has, in their order, and no text occurs twice in it.
C8_CombinedBatch ==
    pc = "dedupe" =>
        /\ new_batch = cleaned \o SelectSeq(ai_reviews,
                                            LAMBDA r : r.text \notin Texts(cleaned))
        /\ NoRepeatedText(new_batch)

\* heuristic [1, 2] and LLM-guided [2, 3] were combined to [1, 2, 3]
C8_Witness ==
    /\ pc = "dedupe"
    /\ cleaned = <<Review(1), Review(2)>>
    /\ ai_reviews = <<Review(2), Review(3)>>
    /\ new_batch = <<Review(1), Review(2), Review(3)>>

\* C9: on the site of 3 pages with 5 reviews each, with max_count = 100, a
\* run that builds a result returns the 15 reviews in page order, with
\* successful_pages = 3, after handle_pagination returned False on page 3.
C9_ThreePages ==
    site = ScenarioSite /\ max_count = 100 /\ result # NoResult =>
        /\ result.reviews = [i \in 1..15 |-> Review(i)]
        /\ result.reviews_count = 15
        /\ successful_pages = 3
        /\ pages_grabbed = 3
        /\ curr_page = 3
        /\ ~has_next

\* that run has returned
C9_Witness ==
    /\ site = ScenarioSite
    /\ max_count = 100
    /\ pc = "done"
    /\ exc = "none"
    /\ result.reviews_count = 15

\* C10: when every selector was tried without a change and the URL has
\* page=<digits>, the URL handed to page.goto is the URL with the digits
\* replaced by curr_page + 1 and everything else as it was, and
\* handle_pagination returns True iff the response is there and OK.
C10_UrlRewrite ==
    [][/\ pc = "pag_click"
       /\ sel_i > NumPaginationSelectors
       /\ \E i \in DOMAIN url : url[i].k = "page=N"
       =>
       /\ DOMAIN next_url' = DOMAIN url
       /\ \A i \in DOMAIN url :
             next_url'[i] = IF url[i].k = "page=N"
                            THEN [k |-> "page=N", n |-> curr_page + 1]
                            ELSE url[i]
       /\ response' # "raise" => url' = next_url'
       /\ has_next' = (response' = "ok")
       /\ pc' = "pag_return"]_vars

\* on page 2, ...?page=2&... was rewritten to ...?page=3&... and the
\* response was OK
C10_Witness ==
    /\ pc = "pag_return"
    /\ curr_page = 2
    /\ next_url = <<Tok("host"), Tok("?"), PageTok(3), Tok("&"), Tok("other")>>
    /\ response = "ok"
    /\ has_next

\* C11: in one call of handle_pagination the selectors are tried in list
\* order from the first; an iteration either changes neither the URL nor the
\* page and goes on to the next selector, or changes one of them and makes
\* the call return True at once, with no later selector tried and no URL
\* built; the URL-rewrite fallback runs only after the last selector.
C11_SelectorOrder ==
    /\ [][pc = "cap" /\ pc' = "pag_click" => sel_i' = 1]_vars
    /\ [](pc = "pag_click" => sel_i \in 1..(NumPaginationSelectors + 1))
    /\ [][pc = "pag_click" /\ sel_i <= NumPaginationSelectors =>
            \/ /\ url' = url
               /\ site_page' = site_page
               /\ pc' = "pag_click"
               /\ sel_i' = sel_i + 1
               /\ ~has_next'
               /\ next_url' = <<>>
               /\ response' = "unbound"
            \/ /\ url' # url \/ site_page' # site_page
               /\ pc' = "pag_return"
               /\ has_next'
               /\ next_url' = <<>>
               /\ response' = "unbound"]_vars
    /\ [][next_url' # <<>> \/ response' # "unbound" =>
            pc = "pag_click" /\ sel_i = NumPaginationSelectors + 1]_vars

\* a click changed the page on the second page of a run: True was returned
\* without a URL having been built
C11_Witness ==
    /\ pc = "pag_return"
    /\ curr_page = 2
    /\ has_next
    /\ next_url = <<>>
    /\ response = "unbound"

\* C12: no step of handle_pagination raises to scrape_site: each step
\* stays in the call or returns a boolean; an exception of one selector
\* only moves on to the next selector; when no selector produced a change
\* and the URL rewrite did not get an OK response (no response, a response
\* that is not OK, or an exception) the call returns False, and the loop of
\* scrape_site then ends and the result is built.
C12_NeverRaises ==
    /\ [][pc = "pag_click" => exc' = exc /\ pc' \in {"pag_click", "pag_return"}]_vars
    /\ [](exc # "pag_click")
    /\ [](pc = "pag_return" => has_next \in BOOLEAN)
    /\ [][pc = "pag_click" /\ sel_i <= NumPaginationSelectors /\ PaginationSelectorError =>
            sel_i' = sel_i + 1 /\ pc' = "pag_click"]_vars
    /\ [][pc = "pag_click" /\ sel_i > NumPaginationSelectors /\ response' # "ok" =>
            pc' = "pag_return" /\ ~has_next']_vars
    /\ [][pc = "pag_return" /\ ~has_next =>
            pc' = "result" /\ curr_page' = curr_page]_vars

\* every selector was tried without a change and page.goto of the
\* rewritten URL raised: False is about to be returned
C12_Witness ==
    /\ pc = "pag_return"
    /\ response = "raise"
    /\ ~has_next
    /\ exc = "none"

\* C13: the initial navigation is attempted once; when it raises, the
\* exception goes through finally and leaves scrape_site with no result
\* built and nothing collected, and get_reviews answers with status 500 and
\* the description of the exception that reached it.
C13_NavigationFailure ==
    /\ [][pc' = "goto" => pc \in {"new_page", "goto"}]_vars
    /\ [][pc = "goto" => pc' \in {"while", "finally"}]_vars
    /\ [][pc = "goto" /\ exc' # exc => pc' = "finally" /\ exc' = "goto"]_vars
    /\ [](exc = "goto" =>
            /\ pc \in {"finally", "close_browser", "done", "responded"}
            /\ result = NoResult
            /\ review_list = <<>>
            /\ pages_grabbed = 0)
    /\ [](pc = "responded" /\ exc = "goto" =>
            http.status = 500 /\ http.body = "none" /\ http.detail = "goto")
    /\ [](pc = "responded" /\ result = NoResult =>
            exc # "none" /\ http.status = 500 /\ http.detail = exc)

\* the navigation failed, the session was closed and the endpoint answered
C13_Witness ==
    /\ pc = "responded"
    /\ exc = "goto"
    /\ http.status = 500
    /\ context = "closed"
    /\ browser = "closed"

\* C19: every step leaves the reviews collected so far where they are, as
\* a prefix of review_list; what a page adds stands after them in the order
\* it has in the page's combined batch, so reviews stand page by page (on a
\* paged site: in the order of the site's pages); the result holds
\* review_list as it is.
C19_AppendOnly ==
    /\ [][/\ Len(review_list') >= Len(review_list)
          /\ SubSeq(review_list', 1, Len(review_list)) = review_list]_vars
    /\ [][review_list' # review_list =>
            LET added == SubSeq(review_list', Len(review_list) + 1, Len(review_list'))
            IN  /\ pc = "dedupe"
                /\ \A i, j \in DOMAIN added :
                      i < j => \E a, b \in DOMAIN new_batch :
                                  /\ a < b
                                  /\ new_batch[a].text = added[i].text
                                  /\ new_batch[b].text = added[j].text]_vars
    /\ [](site.kind = "paged" =>
            \A i \in DOMAIN review_list : review_list[i].text = i)
    /\ [](result # NoResult => result.reviews = review_list)

\* the second page added two reviews behind those of the first page
C19_Witness ==
    /\ pc = "cap"
    /\ curr_page = 2
    /\ initial_count >= 1
    /\ Len(review_list) >= initial_count + 2
    /\ Len(new_batch) >= 2

\* C20: a pass of the load-more loop that finds a visible match clicks it
\* and queries the same selector again; a selector is left only by a pass
\* that finds no visible match or in which a call raises, and the phase is
\* left only after the last selector; no number of clicks ends the loop: at
\* every selector a further click is possible, so with a control that stays
\* visible the loader stays in the loop and grab_reviews is not reached.
C20_LoadMoreLoop ==
    /\ [][LoadMoreClick =>
            /\ pc' = "load_more"
            /\ load_i' = load_i
            /\ pages_grabbed' = pages_grabbed]_vars
    /\ [][pc = "load_more" /\ load_i' # load_i /\ load_i <= NumLoadMoreSelectors =>
            LoadMoreLeave /\ load_i' = load_i + 1]_vars
    /\ [][pc = "load_more" /\ pc' # "load_more" =>
            load_i > NumLoadMoreSelectors /\ pc' = "heuristic"]_vars
    /\ [](pc = "load_more" /\ load_i <= NumLoadMoreSelectors => ENABLED LoadMoreClick)
    /\ (<>[][~LoadMoreLeave]_vars
          /\ []<>(pc = "load_more" /\ load_i <= NumLoadMoreSelectors)
        => <>[](pc = "load_more" /\ load_i <= NumLoadMoreSelectors))

\* the third load-more selector found a visible control and clicked it
C20_Witness ==
    /\ pc = "load_more"
    /\ load_i = 3
    /\ load_clicks = 1
    /\ curr_page = 2

\* C15, as claimed: the stars of every review of a returned result are null
\* or a number from 0 to 5.
C15_RatingInRange ==
    \A i \in DOMAIN result.reviews :
        \/ result.reviews[i].stars = NoStars
        \/ result.reviews[i].stars[1] >= 0 /\ result.reviews[i].stars[1] <= 50

\* C16, as claimed: the text of every review of a returned result has at
\* least 3 whitespace-separated tokens.
C16_BodyTokens ==
    \A i \in DOMAIN result.reviews : Tokens(result.reviews[i].text) >= 3

\* C17, as claimed: cleanText applied to its own output returns that
\* output.
C17_Idempotent == norm.pc = "twice" => norm.twice = norm.once

\* C18: get_dynamic_selectors returns three lists and never raises; when
\* the model call fails, or the reply has no text, the three lists are
\* empty; a reply without any label, and a reply with no quoted selector
\* on or after its first labelled line, give three empty lists as well.
C18_DiscoveryNeverRaises ==
    disc.pc = "returned" =>
        LET lines == disc.reply.lines
            labelled == {i \in DOMAIN lines : lines[i].label # ""}
            empty == /\ disc.out.containers = <<>>
                     /\ disc.out.content = <<>>
                     /\ disc.out.ratings = <<>>
        IN  /\ ~disc.out.raised
            /\ disc.reply.kind # "text" => empty
            /\ labelled = {} => empty
            /\ (\A i \in DOMAIN lines :
                   (\E j \in labelled : j <= i) => FindAll(lines[i].rest) = <<>>)
               => empty

\* the model call failed and three empty lists came back
C18_Witness ==
    /\ disc.pc = "returned"
    /\ disc.reply.kind = "error"
    /\ disc.out = Selectors(<<>>, <<>>, <<>>)

\* C14: with two calls of scrape_site interleaved at their awaits, a step
\* changes the locals of one call only, and review_list, curr_page and
\* successful_pages of each call are at every moment what that call alone
\* would have computed from the answers of its own page.
C14_RunsIndependent ==
    /\ [][\A r \in Runs :
            runs'[r] # runs[r] => \A q \in Runs \ {r} : runs'[q] = runs[q]]_vars
    /\ [](\A r \in Runs :
            runs[r] = Replay(RunStart(runs[r].max_count), runs[r].responses))

\* both calls are between two pages at once, each having collected the
\* text the other has collected too
C14_Witness ==
    /\ runs[1].pc = "paginate"
    /\ runs[2].pc = "paginate"
    /\ runs[1].review_list = <<Review(1)>>
    /\ runs[2].review_list = <<Review(1)>>
    /\ runs[1].responses # <<>>


\* C21: the scroll loop scrolls at most three times in a page visit, and an
\* iteration in which the height read after the scroll equals the height
\* the page had before it ends the loop, the first iteration included; an
\* iteration only continues the loop or leaves it for the wait before the
\* load-more phase.
C21_ScrollStopsEarly ==
    /\ [](scroll_i <= ScrollTries)
    /\ [][pc = "scroll" => pc' \in {"scroll", "settle"}]_vars
    /\ [][pc = "scroll" /\ scrollHeight' = scrollHeight => pc' = "settle"]_vars


\* C22: the script run with the discovered selectors yields at most one
\* review for a box, and the text of a review is the first text of its box
\* the script keeps: the text for a later content selector is not used.
C22_OnePerContainer ==
    guided.pc = "returned" =>
        /\ Len(guided.found) <= Len(guided.boxes)
        /\ \A i \in DOMAIN guided.found :
              \E k \in DOMAIN guided.boxes :
                 LET box == guided.boxes[k]
                 IN  guided.found[i].text = IF box[1] # 0 THEN box[1] ELSE box[2]


\* C23: the URL the rewrite fallback navigates to is, when the current URL
\* has no page=<digits>, the current URL followed by ?page=<curr_page + 1>
\* if it has no query string and by &page=<curr_page + 1> if it has one;
\* when it has page=<digits>, it is the current URL with only those digits
\* changed, to curr_page + 1.
C23_AppendOrReplace ==
    [][pc = "pag_click" /\ sel_i > NumPaginationSelectors /\ pc' = "pag_return"
       =>
       IF \E i \in DOMAIN url : url[i].k = "page=N"
       THEN /\ Len(next_url') = Len(url)
            /\ \A i \in DOMAIN url :
                  IF url[i].k = "page=N"
                  THEN next_url'[i] = PageTok(curr_page + 1)
                  ELSE next_url'[i] = url[i]
       ELSE /\ Len(next_url') = Len(url) + 2
            /\ SubSeq(next_url', 1, Len(url)) = url
            /\ next_url'[Len(url) + 1].k
                 = IF \E i \in DOMAIN url : url[i].k = "?" THEN "&" ELSE "?"
            /\ next_url'[Len(url) + 2] = PageTok(curr_page + 1)]_vars


\* C24 as stated: once curr_page is bound successful_pages is curr_page - 1
\* or curr_page; it is curr_page - 1 at the loop test; when the loop is left
\* it is curr_page exactly when the page visited last contributed a review;
\* it grows by at most one in a step, only once in a page visit, and never
\* decreases.
C24_SuccessfulPages ==
    /\ [](curr_page >= 1 => successful_pages \in {curr_page - 1, curr_page})
    /\ [](pc = "while" => successful_pages = curr_page - 1)
    /\ [](pc = "result" => (successful_pages = curr_page <=> contributed))
    /\ [](successful_pages <= pages_grabbed)
    /\ [][successful_pages' \in {successful_pages, successful_pages + 1}]_vars

\* C24, amended: as stated, except that when the loop is left by its own
\* test after the page cap (curr_page = MaxPages + 1) the page visited last
\* did contribute and successful_pages is curr_page - 1 = MaxPages; when it
\* is left otherwise, successful_pages is curr_page exactly when the page
\* visited last contributed a review.
C24_SuccessfulPagesAtExit ==
    /\ [](curr_page >= 1 => successful_pages \in {curr_page - 1, curr_page})
    /\ [](pc = "while" => successful_pages = curr_page - 1)
    /\ [](pc = "result" /\ curr_page <= MaxPages =>
             (successful_pages = curr_page <=> contributed))
    /\ [](pc = "result" /\ curr_page > MaxPages =>
             contributed /\ successful_pages = MaxPages /\ curr_page = MaxPages + 1)
    /\ [](successful_pages <= pages_grabbed)
    /\ [][successful_pages' \in {successful_pages, successful_pages + 1}]_vars
    /\ [][successful_pages' # successful_pages => pc = "dedupe" /\ contributed']_vars

\* the loop was left by its test after fifty pages that each contributed
C24_Witness ==
    /\ pc = "result"
    /\ curr_page = MaxPages + 1
    /\ successful_pages = MaxPages
    /\ contributed
    /\ exc = "none"

====
